---- MODULE Spec2Model ----
(***************************************************************************)
(* Model of crates/types/src/rpc/transactions/                             *)
(* broadcasted_declare_transaction_v1.rs: the broadcasted declare-v1       *)
(* record, its class hash and transaction hash, and the construction of    *)
(* the execution-ready (starknet_in_rust) Declare.                         *)
(*                                                                         *)
(* Field elements are modelled by their value.  A literal is <<"felt", n>>;*)
(* the Pedersen hash is modelled as a collision-free symbolic term, so two *)
(* hashes are equal exactly when they were computed from the same operands *)
(* in the same order.  The .into() conversions between the crate's Felt    *)
(* and the engine's Felt252 keep the value and so do not appear; the       *)
(* u128 -> Felt252 conversion of max_fee is U128ToFelt.                    *)
(***************************************************************************)
EXTENDS Integers, Sequences, FiniteSets, TLC

\* tx:   the record the caller holds (NoTx before it is constructed)
\* last: the latest operation on tx: its name, receiver, arguments, result
\*       and the fallible steps it ran
\* inv:  hash experiments: each caller's record, chain id and class hash
\* obs:  hash experiments: the results each caller has observed so far
VARIABLES tx, last, inv, obs

vars == <<tx, last, inv, obs>>

\* ------------------------------------------------------------------ bounds
MaxFelt == 1
MaxSigLen == 2

\* ------------------------------------------------------------ value model
F(n) == <<"felt", n>>

U128ToFelt(n) == F(n)

Ok(v) == [ok |-> TRUE, val |-> v]

Err(e) == [ok |-> FALSE, err |-> e]

Felts == {F(n) : n \in 0..MaxFelt}

Fees == 0..MaxFelt

Versions == {F(0), F(1)}

Senders == {F(1), F(2)}

ChainIds == {<<"chain", "SN_GOERLI">>, <<"chain", "SN_MAIN">>}

TestNet == <<"chain", "SN_GOERLI">>

RECURSIVE SeqsUpTo(_, _)
SeqsUpTo(S, n) ==
    IF n = 0 THEN {<<>>}
    ELSE LET shorter == SeqsUpTo(S, n - 1)
         IN  shorter \cup {Append(s, x) : s \in {t \in shorter : Len(t) = n - 1}, x \in S}

SigFelts == {F(1), F(2)}

Signatures == SeqsUpTo(SigFelts, MaxSigLen)

\* A Cairo 0 contract class: its program, whether the class hasher accepts
\* the payload, and whether it converts to the engine's representation.
ContractClasses == [program : {0, 1}, hashable : BOOLEAN, convertible : BOOLEAN]

\* ------------------------------------------------- external collaborators
DeclarePrefix == <<"prefix", "declare">>

VALIDATE_DECLARE_ENTRY_POINT_SELECTOR == <<"selector", "__validate_declare__">>

Pedersen(a, b) == <<"pedersen", a, b>>

RECURSIVE HashFold(_, _)
HashFold(h, xs) ==
    IF xs = <<>> THEN h ELSE HashFold(Pedersen(h, Head(xs)), Tail(xs))

\* h(...h(h(0, x1), x2)..., xn), then mixed with the length n
compute_hash_on_elements(xs) == Pedersen(HashFold(F(0), xs), F(Len(xs)))

calculate_transaction_hash_common(prefix, version, contract_address, entry_point_selector, calldata, max_fee, chain_id, additional_data) ==
    LET calldata_hash == compute_hash_on_elements(calldata)
        data_to_hash == <<prefix, version, contract_address, entry_point_selector,
                          calldata_hash, U128ToFelt(max_fee), chain_id>>
                        \o additional_data
    IN  Ok(compute_hash_on_elements(data_to_hash))

\* starknet_in_rust::transaction::verify_version, called at line 70.  Its
\* body is the engine crate's: only version 0 constrains the other fields (no
\* fee, no nonce, no signature).  The one case the source file itself fixes
\* agrees: the test at lines 160-179 builds a version-1 record with an empty
\* signature and unwraps the result of create_sir_declare.
verify_version(version, max_fee, nonce, signature) ==
    IF version = F(0)
    THEN IF max_fee # 0 THEN Err("InvalidMaxFee")
         ELSE IF nonce # F(0) THEN Err("InvalidNonce")
         ELSE IF signature # <<>> THEN Err("InvalidSignature")
         ELSE Ok("unit")
    ELSE Ok("unit")

\* HashProducer::generate_hash of Cairo0ContractClass
generate_hash(contract_class) ==
    IF contract_class.hashable
    THEN Ok(<<"class_hash", contract_class.program>>)
    ELSE Err("ClassHashError")

\* TryFrom<Cairo0ContractClass> for the engine's contract class
try_into(contract_class) ==
    IF contract_class.convertible
    THEN Ok(<<"sir_class", contract_class.program>>)
    ELSE Err("ClassConversionError")

\* ----------------------------------------------------------- the record
new(sender_address, max_fee, signature, nonce, contract_class, version) ==
    [sender_address |-> sender_address,
     contract_class |-> contract_class,
     common |-> [max_fee |-> max_fee,
                 nonce |-> nonce,
                 version |-> version,
                 signature |-> signature]]

\* Every operation returns its result and the trace of the fallible steps
\* it ran, in order.

\* The struct literal of create_sir_declare, given the converted class.
SirDeclare(self, class_hash, transaction_hash, sir_class) ==
    [class_hash |-> class_hash,
     sender_address |-> self.sender_address,
     validate_entry_point_selector |-> VALIDATE_DECLARE_ENTRY_POINT_SELECTOR,
     version |-> self.common.version,
     max_fee |-> self.common.max_fee,
     signature |-> [i \in 1..Len(self.common.signature) |-> self.common.signature[i]],
     nonce |-> self.common.nonce,
     hash_value |-> transaction_hash,
     contract_class |-> sir_class,
     skip_execute |-> FALSE,
     skip_fee_transfer |-> FALSE,
     skip_validate |-> FALSE]

\* Mutant: version and nonce exchanged in the call of verify_version.
create_sir_declare_swapped_policy_args(self, class_hash, transaction_hash) ==
    LET conv == try_into(self.contract_class)
    IN  IF ~conv.ok
        THEN [res |-> conv, trace |-> <<"try_into">>]
        ELSE LET declare == SirDeclare(self, class_hash, transaction_hash, conv.val)
                 vv == verify_version(declare.nonce, declare.max_fee,
                                      declare.version, declare.signature)
             IN  IF ~vv.ok
                 THEN [res |-> vv, trace |-> <<"try_into", "verify_version">>]
                 ELSE [res |-> Ok(declare), trace |-> <<"try_into", "verify_version">>]

\* Mutant: the object is returned without the version policy check.
create_sir_declare_unchecked(self, class_hash, transaction_hash) ==
    LET conv == try_into(self.contract_class)
    IN  IF ~conv.ok
        THEN [res |-> conv, trace |-> <<"try_into">>]
        ELSE [res |-> Ok(SirDeclare(self, class_hash, transaction_hash, conv.val)),
              trace |-> <<"try_into">>]

\* Mutant: the class hash is recomputed from the record's class.
create_sir_declare_recomputed(self, class_hash, transaction_hash) ==
    LET conv == try_into(self.contract_class)
        own == generate_hash(self.contract_class)
    IN  IF ~conv.ok
        THEN [res |-> conv, trace |-> <<"try_into">>]
        ELSE LET declare == SirDeclare(self, IF own.ok THEN own.val ELSE class_hash,
                                       transaction_hash, conv.val)
                 vv == verify_version(declare.version, declare.max_fee,
                                      declare.nonce, declare.signature)
             IN  IF ~vv.ok
                 THEN [res |-> vv, trace |-> <<"try_into", "verify_version">>]
                 ELSE [res |-> Ok(declare), trace |-> <<"try_into", "verify_version">>]

\* Mutant: the version policy is checked before the class is converted.
create_sir_declare_policy_first(self, class_hash, transaction_hash) ==
    LET vv == verify_version(self.common.version, self.common.max_fee,
                             self.common.nonce, self.common.signature)
        conv == try_into(self.contract_class)
    IN  IF ~vv.ok
        THEN [res |-> vv, trace |-> <<"verify_version">>]
        ELSE IF ~conv.ok
        THEN [res |-> conv, trace |-> <<"verify_version", "try_into">>]
        ELSE [res |-> Ok(SirDeclare(self, class_hash, transaction_hash, conv.val)),
              trace |-> <<"verify_version", "try_into">>]

create_sir_declare(self, class_hash, transaction_hash) ==
    LET conv == try_into(self.contract_class)
    IN  IF ~conv.ok
        THEN [res |-> conv, trace |-> <<"try_into">>]
        ELSE LET declare == SirDeclare(self, class_hash, transaction_hash, conv.val)
                 vv == verify_version(declare.version, declare.max_fee,
                                      declare.nonce, declare.signature)
             IN  IF ~vv.ok
                 THEN [res |-> vv, trace |-> <<"try_into", "verify_version">>]
                 ELSE [res |-> Ok(declare), trace |-> <<"try_into", "verify_version">>]

create_declare(self, class_hash, transaction_hash) ==
    [res |-> Ok([class_hash |-> class_hash,
                 sender_address |-> self.sender_address,
                 nonce |-> self.common.nonce,
                 max_fee |-> self.common.max_fee,
                 version |-> self.common.version,
                 transaction_hash |-> transaction_hash,
                 signature |-> self.common.signature]),
     trace |-> <<>>]

\* Mutant: a hasher failure is replaced by a zero class hash.
generate_class_hash_swallowed(self) ==
    LET h == generate_hash(self.contract_class)
    IN  [res |-> IF h.ok THEN h ELSE Ok(F(0)), trace |-> <<"generate_hash">>]

generate_class_hash(self) ==
    [res |-> generate_hash(self.contract_class), trace |-> <<"generate_hash">>]

\* Mutant: the signature is hashed too, after the nonce.
calculate_transaction_hash_signed(self, chain_id, class_hash) ==
    [res |-> calculate_transaction_hash_common(
                 DeclarePrefix, self.common.version, self.sender_address, F(0),
                 <<class_hash>>, self.common.max_fee, chain_id,
                 <<self.common.nonce>> \o self.common.signature),
     trace |-> <<"calculate_transaction_hash_common">>]

\* Mutant: the nonce is the calldata and the class hash the additional data.
calculate_transaction_hash_swapped(self, chain_id, class_hash) ==
    [res |-> calculate_transaction_hash_common(
                 DeclarePrefix, self.common.version, self.sender_address, F(0),
                 <<self.common.nonce>>, self.common.max_fee, chain_id,
                 <<class_hash>>),
     trace |-> <<"calculate_transaction_hash_common">>]

\* Mutant: the hash mixes in how many callers have hashed before (state
\* shared between invocations).
calculate_transaction_hash_counted(self, chain_id, class_hash) ==
    [res |-> calculate_transaction_hash_common(
                 DeclarePrefix, self.common.version, self.sender_address, F(0),
                 <<class_hash>>, self.common.max_fee, chain_id,
                 <<self.common.nonce,
                   F(Cardinality({c \in DOMAIN obs : obs[c] # {}}))>>),
     trace |-> <<"calculate_transaction_hash_common">>]

\* Mutant: the version policy is checked before hashing.
calculate_transaction_hash_checked(self, chain_id, class_hash) ==
    LET vv == verify_version(self.common.version, self.common.max_fee,
                             self.common.nonce, self.common.signature)
    IN  IF ~vv.ok
        THEN [res |-> vv, trace |-> <<"verify_version">>]
        ELSE [res |-> calculate_transaction_hash_common(
                          DeclarePrefix, self.common.version, self.sender_address,
                          F(0), <<class_hash>>, self.common.max_fee, chain_id,
                          <<self.common.nonce>>),
              trace |-> <<"verify_version", "calculate_transaction_hash_common">>]

calculate_transaction_hash(self, chain_id, class_hash) ==
    LET additional_data == <<self.common.nonce>>
        calldata == <<class_hash>>
    IN  [res |-> calculate_transaction_hash_common(
                     DeclarePrefix,
                     self.common.version,
                     self.sender_address,
                     F(0),
                     calldata,
                     self.common.max_fee,
                     chain_id,
                     additional_data),
         trace |-> <<"calculate_transaction_hash_common">>]

\* The flow of one declare request: class hash, transaction hash, then the
\* execution-ready object; the first failure ends it.
declare_pipeline(self, chain_id) ==
    LET ch == generate_class_hash(self)
    IN  IF ~ch.res.ok
        THEN [res |-> ch.res, trace |-> ch.trace]
        ELSE LET th == calculate_transaction_hash(self, chain_id, ch.res.val)
             IN  IF ~th.res.ok
                 THEN [res |-> th.res, trace |-> ch.trace \o th.trace]
                 ELSE LET d == create_sir_declare(self, ch.res.val, th.res.val)
                      IN  [res |-> d.res,
                           trace |-> ch.trace \o th.trace \o d.trace]

\* ------------------------------------------------------------------ state

NoTx == [none |-> TRUE]

NoCall == [op |-> "none"]

Call(op, self, args, out) ==
    [op |-> op, self |-> self, args |-> args, res |-> out.res, trace |-> out.trace]

\* What a caller may pass as class hash and as transaction hash: any field
\* element, among them the ones computed from the record.
ClassHashArgs == Felts \cup {<<"class_hash", p>> : p \in {0, 1}}

TxHashArgs(self) ==
    LET h == generate_hash(self.contract_class)
        t == calculate_transaction_hash(self, TestNet, h.val).res
    IN  Felts \cup (IF h.ok /\ t.ok THEN {t.val} ELSE {})

\* ----------------------------------------- inputs of the hash experiments
\* Two callers, each with its own record, chain id and class hash, invoke
\* calculate_transaction_hash in any order and any number of times.
Callers == {1, 2}

GoodClass == [program |-> 0, hashable |-> TRUE, convertible |-> TRUE]

HashSignatures == {<<>>, <<F(1)>>}

HashRecords ==
    {new(sender_address, max_fee, signature, nonce, GoodClass, version) :
        sender_address \in Senders, max_fee \in Fees, signature \in HashSignatures,
        nonce \in Felts, version \in Versions}

HashInputs == [self : HashRecords, chain_id : ChainIds, class_hash : Felts]

Init ==
    /\ tx = NoTx
    /\ last = NoCall
    /\ inv = <<>>
    /\ obs = <<>>

\* One behaviour follows one record: it is constructed once and is immutable
\* afterwards; every later operation borrows it (&self).
New ==
    /\ tx = NoTx
    /\ \E sender_address \in Senders, max_fee \in Fees, signature \in Signatures,
          nonce \in Felts, contract_class \in ContractClasses, version \in Versions :
          LET self == new(sender_address, max_fee, signature, nonce,
                          contract_class, version)
          IN  /\ tx' = self
              /\ last' = Call("new", self, <<>>, [res |-> Ok(self), trace |-> <<>>])
    /\ UNCHANGED <<inv, obs>>

GenerateClassHash ==
    /\ tx # NoTx
    /\ last' = Call("generate_class_hash", tx, <<>>, generate_class_hash(tx))
    /\ UNCHANGED <<tx, inv, obs>>

CalculateTransactionHash ==
    /\ tx # NoTx
    /\ \E chain_id \in ChainIds, class_hash \in ClassHashArgs :
          last' = Call("calculate_transaction_hash", tx, <<chain_id, class_hash>>,
                       calculate_transaction_hash(tx, chain_id, class_hash))
    /\ UNCHANGED <<tx, inv, obs>>

CreateSirDeclare ==
    /\ tx # NoTx
    /\ \E class_hash \in ClassHashArgs, transaction_hash \in TxHashArgs(tx) :
          last' = Call("create_sir_declare", tx, <<class_hash, transaction_hash>>,
                       create_sir_declare(tx, class_hash, transaction_hash))
    /\ UNCHANGED <<tx, inv, obs>>

CreateDeclare ==
    /\ tx # NoTx
    /\ \E class_hash \in ClassHashArgs, transaction_hash \in TxHashArgs(tx) :
          last' = Call("create_declare", tx, <<class_hash, transaction_hash>>,
                       create_declare(tx, class_hash, transaction_hash))
    /\ UNCHANGED <<tx, inv, obs>>

DeclarePipeline ==
    /\ tx # NoTx
    /\ \E chain_id \in ChainIds :
          last' = Call("declare_pipeline", tx, <<chain_id>>,
                       declare_pipeline(tx, chain_id))
    /\ UNCHANGED <<tx, inv, obs>>

Next ==
    \/ New
    \/ GenerateClassHash
    \/ CalculateTransactionHash
    \/ CreateSirDeclare
    \/ CreateDeclare
    \/ DeclarePipeline

Spec == Init /\ [][Next]_vars

InitHash ==
    /\ tx = NoTx
    /\ last = NoCall
    /\ inv \in [Callers -> HashInputs]
    /\ obs = [c \in Callers |-> {}]

Invoke(c) ==
    /\ obs' = [obs EXCEPT ![c] = @ \cup
                  {calculate_transaction_hash(inv[c].self, inv[c].chain_id,
                                              inv[c].class_hash).res}]
    /\ UNCHANGED <<tx, last, inv>>

NextHash == \E c \in Callers : Invoke(c)

SpecHash == InitHash /\ [][NextHash]_vars

\* ================================================================= claims
IsSir == last.op = "create_sir_declare"

PolicyOf(self) ==
    verify_version(self.common.version, self.common.max_fee,
                   self.common.nonce, self.common.signature)

PolicyErrors == {Err("InvalidMaxFee"), Err("InvalidNonce"), Err("InvalidSignature")}

DiffersOnlyInSignature(a, b) ==
    /\ a.sender_address = b.sender_address
    /\ a.contract_class = b.contract_class
    /\ a.common.max_fee = b.common.max_fee
    /\ a.common.nonce = b.common.nonce
    /\ a.common.version = b.common.version
    /\ a.common.signature # b.common.signature

SameHashArguments(i, j) ==
    /\ i.self.common.version = j.self.common.version
    /\ i.self.sender_address = j.self.sender_address
    /\ i.self.common.max_fee = j.self.common.max_fee
    /\ i.self.common.nonce = j.self.common.nonce
    /\ i.class_hash = j.class_hash
    /\ i.chain_id = j.chain_id

\* C1: two records that differ only in their signature, hashed with the same
\* chain id and the same class hash, yield the same transaction hash.
C1_SignatureIndependence ==
    \A c \in Callers, d \in Callers :
        ( /\ DiffersOnlyInSignature(inv[c].self, inv[d].self)
          /\ inv[c].chain_id = inv[d].chain_id
          /\ inv[c].class_hash = inv[d].class_hash )
        => \A r \in obs[c], q \in obs[d] : r.ok /\ q.ok /\ r.val = q.val

C1_Witness ==
    /\ DiffersOnlyInSignature(inv[1].self, inv[2].self)
    /\ inv[1].chain_id = inv[2].chain_id
    /\ inv[1].class_hash = inv[2].class_hash
    /\ obs[1] # {}
    /\ obs[2] # {}

\* C2 as stated: under the fee-paying version 1, create_sir_declare's policy
\* check fails exactly when the signature is empty.
C2_EmptySignatureRejected ==
    ( /\ IsSir
      /\ last.self.common.version = F(1)
      /\ last.self.contract_class.convertible )
    => ( /\ last.self.common.signature = <<>> => last.res \in PolicyErrors
         /\ last.self.common.signature # <<>> => last.res.ok )

\* C2 amended: under version 1 the policy check of create_sir_declare passes
\* with an empty signature as well as with a non-empty one.
C2_Version1PassesPolicy ==
    ( /\ IsSir
      /\ last.self.common.version = F(1)
      /\ last.self.contract_class.convertible )
    => /\ last.res.ok
       /\ last.trace = <<"try_into", "verify_version">>

C2_Witness ==
    /\ IsSir
    /\ last.self.common.version = F(1)
    /\ last.self.common.signature = <<>>
    /\ last.trace = <<"try_into", "verify_version">>
    /\ last.res.ok

\* C3: create_sir_declare returns an object only if the class conversion and
\* the version policy check both succeeded; otherwise it returns the error of
\* the failing step and no object, so every object handed out satisfies the
\* policy.
C3_FinalGate ==
    IsSir =>
        LET conv == try_into(last.self.contract_class)
            pol == PolicyOf(last.self)
        IN  /\ last.res.ok <=> (conv.ok /\ pol.ok)
            /\ ~conv.ok => last.res = Err("ClassConversionError")
            /\ (conv.ok /\ ~pol.ok) => last.res = pol
            /\ last.res.ok =>
                   verify_version(last.res.val.version, last.res.val.max_fee,
                                  last.res.val.nonce, last.res.val.signature).ok

C3_Witness ==
    /\ IsSir
    /\ last.self.contract_class.convertible
    /\ ~PolicyOf(last.self).ok
    /\ last.res \in PolicyErrors

\* C5: the transaction hash is the hash over, in this order, the Declare
\* prefix, version, sender address, 0, the hash of <<class_hash>>, max_fee,
\* chain id and the nonce; with class hash and nonce exchanged the value
\* differs whenever the nonce differs from the class hash.
C5_OperandOrder ==
    last.op = "calculate_transaction_hash" =>
        LET chain_id == last.args[1]
            class_hash == last.args[2]
            nonce == last.self.common.nonce
            H(calldata_elem, extra) ==
                Pedersen(
                  Pedersen(
                    Pedersen(
                      Pedersen(
                        Pedersen(
                          Pedersen(
                            Pedersen(
                              Pedersen(
                                Pedersen(F(0), DeclarePrefix),
                                last.self.common.version),
                              last.self.sender_address),
                            F(0)),
                          Pedersen(Pedersen(F(0), calldata_elem), F(1))),
                        F(last.self.common.max_fee)),
                      chain_id),
                    extra),
                  F(8))
        IN  /\ last.res = Ok(H(class_hash, nonce))
            /\ nonce # class_hash => last.res.val # H(nonce, class_hash)

C5_Witness ==
    /\ last.op = "calculate_transaction_hash"
    /\ last.self.common.nonce # last.args[2]
    /\ last.res.ok

C7_RejectionPropagation ==
    /\ last.op = "generate_class_hash" =>
          /\ last.self.contract_class.hashable =>
                last.res = Ok(<<"class_hash", last.self.contract_class.program>>)
          /\ ~last.self.contract_class.hashable => last.res = Err("ClassHashError")
    /\ (last.op = "declare_pipeline" /\ ~last.self.contract_class.hashable) =>
          /\ last.res = Err("ClassHashError")
          /\ last.trace = <<"generate_hash">>

C7_Witness ==
    /\ last.op = "declare_pipeline"
    /\ ~last.self.contract_class.hashable
    /\ ~PolicyOf(last.self).ok
    /\ last.res = Err("ClassHashError")

\* C8: a successful create_sir_declare returns the record's sender_address,
\* version, max_fee, nonce and signature, the class hash and transaction hash
\* exactly as passed, all three skip flags false, and leaves the record as
\* it was.
C8_VerbatimAssembly ==
    (IsSir /\ last.res.ok) =>
        LET d == last.res.val
        IN  /\ d.sender_address = last.self.sender_address
            /\ d.version = last.self.common.version
            /\ d.max_fee = last.self.common.max_fee
            /\ d.nonce = last.self.common.nonce
            /\ d.signature = last.self.common.signature
            /\ d.class_hash = last.args[1]
            /\ d.hash_value = last.args[2]
            /\ ~d.skip_execute
            /\ ~d.skip_fee_transfer
            /\ ~d.skip_validate
            /\ tx = last.self

C8_Witness ==
    /\ IsSir
    /\ last.res.ok
    /\ Len(last.self.common.signature) = 2
    /\ last.self.common.signature[1] # last.self.common.signature[2]
    /\ Ok(last.args[1]) # generate_hash(last.self.contract_class)
    /\ last.args[2] \in Felts

\* C9: new and calculate_transaction_hash never run the version policy and
\* succeed on records that violate it; the policy runs only inside
\* create_sir_declare, after the conversion and before an object is returned.
C9_PolicyOnlyBeforeHandoff ==
    /\ last.op \in {"new", "calculate_transaction_hash"} =>
          /\ last.res.ok
          /\ \A i \in 1..Len(last.trace) : last.trace[i] # "verify_version"
    /\ (last.op \in {"generate_class_hash", "create_declare"}) =>
          \A i \in 1..Len(last.trace) : last.trace[i] # "verify_version"
    /\ (last.op \in {"create_sir_declare", "declare_pipeline"} /\ last.res.ok) =>
          last.trace[Len(last.trace)] = "verify_version"

C9_Witness ==
    /\ last.op = "calculate_transaction_hash"
    /\ ~PolicyOf(last.self).ok
    /\ last.res.ok

\* C10: the class conversion comes first: a record that fails both the
\* conversion and the policy gets the conversion error and the policy is not
\* run; a policy error is returned only after a successful conversion.
C10_ErrorPrecedence ==
    IsSir =>
        /\ (~last.self.contract_class.convertible /\ ~PolicyOf(last.self).ok) =>
              /\ last.res = Err("ClassConversionError")
              /\ last.trace = <<"try_into">>
        /\ last.res \in PolicyErrors =>
              /\ last.self.contract_class.convertible
              /\ last.trace = <<"try_into", "verify_version">>

C10_Witness ==
    /\ IsSir
    /\ ~last.self.contract_class.convertible
    /\ ~PolicyOf(last.self).ok
    /\ last.res = Err("ClassConversionError")

====
